---- MODULE Spec2Model ----
(***************************************************************************)
(* State-machine model of pages/07_solar_panel.py: the module-level data   *)
(* loader, the area filter, the Page component (threshold state, memoised  *)
(* filtered view, slider, download button) and the GeoAI_MapView effect    *)
(* that updates the layers of the long-lived map instance.                 *)
(*                                                                         *)
(* Numbers: areas and thresholds are floats in the program; the model      *)
(* keeps them as integers and keeps the slider maximum multiplied by       *)
(* RATIO_DEN (max * 1.1 is stored as max * 11 over 10).                    *)
(***************************************************************************)
EXTENDS Integers, Sequences, FiniteSets, TLC

VARIABLES
    phase,                  \* "start" | "loaded" | "rendered" | "crashed"
    file,                   \* the input file found at GEOJSON_PATH
    all_solar_data,         \* all_solar_data.value
    map_bounds,             \* map_bounds.value (<<>> is None)
    load_raised,            \* get_initial_data raised to its caller
    min_area_value,         \* use_state(10.0) of Page
    memo_deps,              \* dependencies stored by use_memo of Page
    current_filtered_data,  \* value stored by use_memo of Page
    filtered_is_global,     \* current_filtered_data is all_solar_data.value itself
    view,                   \* what the last render of Page put on screen
    layers,                 \* layers of the map instance m, bottom to top
    naming,                 \* how the map library names a layer added without a name
    overlays_at_add,        \* overlay layers on m when add_geojson was last called
    update_raised,          \* update_geojson_layer raised out of the effect
    download                \* <<>> or <<content>>: what file_download last got

vars == <<phase, file, all_solar_data, map_bounds, load_raised, min_area_value,
          memo_deps, current_filtered_data, filtered_is_global, view, layers,
          naming, overlays_at_add, update_raised, download>>

-----------------------------------------------------------------------------
(* Bounds of the model *)

MaxRows == 3

MaxPageRows == 2

MaxOverlays == 2

MaxThreshold == 30

MaxSliderSteps == 5

AreaValues == {5, 10, 25}

(* Program constants *)

DEFAULT_MIN_AREA == 10

FALLBACK_MAX_AREA == 500

SLIDER_STEP == 10

RATIO_NUM == 11

RATIO_DEN == 10

LAYER_NAME == "GeoAI_Filtered_Solar_Panels"

TILE_LAYER_NAME == "Original Imagery"

DEFAULT_GEOJSON_NAME == "GeoJSON"

None == <<>>

-----------------------------------------------------------------------------
(* Feature tables.  A table is [columns, area_dtype, rows]; a row is a     *)
(* function from the table's columns to values.  "geometry" holds the      *)
(* feature's geometry, which identifies the feature.                       *)

StyleColumns == {"fill", "stroke", "stroke-width", "fill-opacity"}

Row(g, a, withArea) ==
    IF withArea THEN [geometry |-> g, area_m2 |-> a] ELSE [geometry |-> g]

\* A table as gpd.read_file delivers it: one row per feature, in file order.
LoadedTable(areas, dtype) ==
    [columns    |-> IF dtype = "none" THEN {"geometry"} ELSE {"geometry", "area_m2"},
     area_dtype |-> dtype,
     rows       |-> [i \in 1..Len(areas) |-> Row(i, areas[i], dtype # "none")]]

SeqsUpTo(S, n) == UNION {[1..k -> S] : k \in 0..n}

\* float: numeric area values; object: area values that are text; none: no area column.
LoadableTables(n) ==
    {LoadedTable(areas, d) : areas \in SeqsUpTo(AreaValues, n),
                             d \in {"float", "object", "none"}}

\* gpd.GeoDataFrame(): no columns, no rows.
EmptyGeoDataFrame == [columns |-> {}, area_dtype |-> "none", rows |-> <<>>]

\* gpd.GeoDataFrame(pd.DataFrame({'area_m2': []}), geometry=[], crs=...)
FallbackTable == [columns |-> {"area_m2", "geometry"}, area_dtype |-> "float", rows |-> <<>>]

IsEmpty(tab) == Len(tab.rows) = 0 \/ tab.columns = {}

Geoms(tab) == {tab.rows[i].geometry : i \in 1..Len(tab.rows)}

IntMin(a, b) == IF a <= b THEN a ELSE b

SetMin(S) == CHOOSE x \in S : \A y \in S : x <= y

SetMax(S) == CHOOSE x \in S : \A y \in S : x >= y

\* data.total_bounds as (minx, miny, maxx, maxy); feature g covers the point (g, g).
TotalBounds(tab) ==
    <<SetMin(Geoms(tab)), SetMin(Geoms(tab)), SetMax(Geoms(tab)), SetMax(Geoms(tab))>>

-----------------------------------------------------------------------------
(* The input file and the loader (get_initial_data)                        *)

Files(n) ==
    {[exists |-> FALSE, readable |-> FALSE, content |-> EmptyGeoDataFrame]}
    \cup {[exists |-> TRUE, readable |-> FALSE, content |-> EmptyGeoDataFrame]}
    \cup {[exists |-> TRUE, readable |-> TRUE, content |-> t] : t \in LoadableTables(n)}

\* The value of `data` after lines 35-49: <<>> is None.
ReadAttempt(f) ==
    IF f.exists /\ f.readable THEN <<f.content>> ELSE <<>>

BboxAfterRead(f) ==
    IF f.exists /\ f.readable /\ ~IsEmpty(f.content) THEN TotalBounds(f.content) ELSE None

\* Faulty variant: the read error is not caught.
get_initial_data_NoCatch(f) ==
    IF f.exists /\ ~f.readable
    THEN [data |-> EmptyGeoDataFrame, bbox |-> None, raised |-> TRUE]
    ELSE [data   |-> IF ReadAttempt(f) = <<>> THEN FallbackTable ELSE ReadAttempt(f)[1],
          bbox   |-> BboxAfterRead(f),
          raised |-> FALSE]

\* get_initial_data(): the table, the bounding box, and whether it raised.
get_initial_data(f) ==
    [data   |-> IF ReadAttempt(f) = <<>> THEN FallbackTable ELSE ReadAttempt(f)[1],
     bbox   |-> BboxAfterRead(f),
     raised |-> FALSE]

-----------------------------------------------------------------------------
(* The filter (calculate_filtered_data)                                    *)

\* Faulty variants of the selection: > for >=, and <= for >=.
SelectRowsStrict(tab, t) ==
    [tab EXCEPT !.rows = SelectSeq(tab.rows, LAMBDA r : r.area_m2 > t)]

SelectRowsBelow(tab, t) ==
    [tab EXCEPT !.rows = SelectSeq(tab.rows, LAMBDA r : r.area_m2 <= t)]

\* Boolean-mask selection all_solar_data.value[... >= min_area_value].copy():
\* the rows whose area passes, in table order, as a new table.
SelectRows(tab, t) ==
    [tab EXCEPT !.rows = SelectSeq(tab.rows, LAMBDA r : r.area_m2 >= t)]

StyleValues ==
    [c \in StyleColumns |->
        CASE c = "fill"         -> "#FFD700"
          [] c = "stroke"       -> "#FF4500"
          [] c = "stroke-width" -> 2
          [] c = "fill-opacity" -> "0.7"]

\* A column assignment df[c] = v: every row gets v under c.
SetColumn(tab, c, v) ==
    [columns    |-> tab.columns \cup {c},
     area_dtype |-> tab.area_dtype,
     rows       |-> [i \in 1..Len(tab.rows) |->
                        [k \in (DOMAIN tab.rows[i]) \cup {c} |->
                            IF k = c THEN v ELSE tab.rows[i][k]]]]

\* Faulty variant: the stroke width is written under the area column.
StyleWritesOnArea(tab) ==
    SetColumn(SetColumn(SetColumn(SetColumn(tab,
        "fill", StyleValues["fill"]),
        "stroke", StyleValues["stroke"]),
        "area_m2", 2),
        "fill-opacity", StyleValues["fill-opacity"])

StyleWrites(tab) ==
    SetColumn(SetColumn(SetColumn(SetColumn(tab,
        "fill", StyleValues["fill"]),
        "stroke", StyleValues["stroke"]),
        "stroke-width", StyleValues["stroke-width"]),
        "fill-opacity", StyleValues["fill-opacity"])

\* Faulty variant: the style assignments are made on all_solar_data.value.
GlobalAfterStyleOnGlobal(tab, t) ==
    IF IsEmpty(tab) \/ "area_m2" \notin tab.columns \/ tab.area_dtype # "float"
    THEN tab
    ELSE StyleWrites(tab)

\* What a call leaves in all_solar_data.value: the style assignments are made on
\* filtered_gdf, the copy of the selection, so the process-wide table keeps its value.
GlobalAfterFilter(tab, t) == tab

\* The outcome of the try block: "ok", "KeyError" (no area column) or "Exception"
\* (the comparison of text with a number raises TypeError).
FilterOutcome(tab) ==
    IF "area_m2" \notin tab.columns THEN "KeyError"
    ELSE IF tab.area_dtype # "float" THEN "Exception"
    ELSE "ok"

\* Faulty variant: a failed filtering is answered with an empty table.
PassthroughEmpty(tab) == EmptyGeoDataFrame

\* The except branches: return all_solar_data.value.
Passthrough(tab) == tab

\* calculate_filtered_data with all_solar_data.value = tab: the returned table.
calculate_filtered_data(tab, t) ==
    IF IsEmpty(tab) THEN EmptyGeoDataFrame
    ELSE IF FilterOutcome(tab) = "ok" THEN StyleWrites(SelectRows(tab, t))
    ELSE Passthrough(tab)

\* Whether the returned object is all_solar_data.value itself.
ReturnsGlobal(tab) == ~IsEmpty(tab) /\ FilterOutcome(tab) # "ok"

-----------------------------------------------------------------------------
(* Serialisation: gdf.__geo_interface__ and gdf.to_json()                  *)

Properties(r) == [k \in (DOMAIN r) \ {"geometry"} |-> r[k]]

Feature(r) ==
    [type |-> "Feature", geometry |-> r["geometry"], properties |-> Properties(r)]

GeoInterface(tab) ==
    [type |-> "FeatureCollection",
     features |-> [i \in 1..Len(tab.rows) |-> Feature(tab.rows[i])]]

to_json(tab) == GeoInterface(tab)

-----------------------------------------------------------------------------
(* The map instance and GeoAI_MapView.update_geojson_layer                 *)

TileLayer ==
    [name |-> TILE_LAYER_NAME, suffix |-> 0, kind |-> "raster",
     data |-> [type |-> "tiles", features |-> <<>>]]

LayerNames(ls) == {<<ls[i].name, ls[i].suffix>> : i \in 1..Len(ls)}

IsOverlay(l) == l.kind = "geojson"

OverlayCount(ls) == Len(SelectSeq(ls, IsOverlay))

\* The library gives a layer added without a name its default name, either made
\* unique among the layers of the map or as it is (replacing the entry of that name).
Namings == {"unique", "reuse"}

\* What each external call of one update does: return ("ok") or raise.
UpdateOutcomes(gdf) ==
    [tile : {"ok", "raise"}, remove : {"ok", "raise"},
     add : IF IsEmpty(gdf) THEN {"not called"} ELSE {"ok", "raise"}]

\* Step 3a, inside try/except.
AfterTileStep(ls, o) ==
    IF o.tile = "raise" THEN ls
    ELSE IF <<TILE_LAYER_NAME, 0>> \in LayerNames(ls) THEN ls
    ELSE Append(ls, TileLayer)

\* map_instance.remove_layer(name): the layers not called name.
RemoveLayer(ls, name) ==
    SelectSeq(ls, LAMBDA l : ~(l.name = name /\ l.suffix = 0))

\* Step 3b, first half, inside try/except.
AfterRemoveStep(ls, o) ==
    IF o.remove = "raise" THEN ls ELSE RemoveLayer(ls, LAYER_NAME)

SameBase(ls, name) == SelectSeq(ls, LAMBDA l : l.name = name)

\* map_instance.add_geojson(data) with no name given.
AddGeojson(ls, data, how) ==
    IF how = "unique"
    THEN Append(ls, [name |-> DEFAULT_GEOJSON_NAME,
                     suffix |-> Len(SameBase(ls, DEFAULT_GEOJSON_NAME)),
                     kind |-> "geojson", data |-> data])
    ELSE Append(SelectSeq(ls, LAMBDA l : l.name # DEFAULT_GEOJSON_NAME),
                [name |-> DEFAULT_GEOJSON_NAME, suffix |-> 0,
                 kind |-> "geojson", data |-> data])

\* update_geojson_layer(m, gdf): the layers of m afterwards, whether the call
\* raised, and how many overlay layers m held when add_geojson was called
\* (prev when it was not called).
update_geojson_layer(ls, gdf, o, how, prev) ==
    LET cleared == AfterRemoveStep(AfterTileStep(ls, o), o) IN
    IF IsEmpty(gdf)
    THEN [layers |-> cleared, raised |-> FALSE, overlays_at_add |-> prev]
    ELSE IF o.add = "raise"
    THEN [layers |-> cleared, raised |-> TRUE, overlays_at_add |-> OverlayCount(cleared)]
    ELSE [layers |-> AddGeojson(cleared, GeoInterface(gdf), how), raised |-> FALSE,
          overlays_at_add |-> OverlayCount(cleared)]

-----------------------------------------------------------------------------
(* The Page component                                                      *)

AreasOf(tab) == {tab.rows[i].area_m2 : i \in 1..Len(tab.rows)}

HasAreaStats(tab) == Len(tab.rows) > 0 /\ "area_m2" \in tab.columns

\* all_solar_data.value['area_m2'].max() * 1.1 raises TypeError on text.
MaxAreaRaises(tab) == HasAreaStats(tab) /\ tab.area_dtype # "float"

\* max_area, multiplied by RATIO_DEN.
MaxAreaScaled(tab) ==
    IF HasAreaStats(tab) /\ tab.area_dtype = "float"
    THEN SetMax(AreasOf(tab)) * RATIO_NUM
    ELSE FALLBACK_MAX_AREA * RATIO_DEN

NoView ==
    [raised |-> FALSE, max_area |-> 0, total_count |-> 0, filtered_count |-> 0,
     disabled |-> TRUE, click_data |-> EmptyGeoDataFrame]

\* One render of Page: the slider maximum, the counts, the button.
RenderView(all, filtered) ==
    [raised         |-> MaxAreaRaises(all),
     max_area       |-> MaxAreaScaled(all),
     total_count    |-> Len(all.rows),
     filtered_count |-> Len(filtered.rows),
     disabled       |-> (Len(filtered.rows) = 0),
     click_data     |-> filtered]

\* The values the slider can hand to on_value: min + k * step, not above max
\* (the model stops at MaxSliderSteps steps).
SliderValues(vw) ==
    {k * SLIDER_STEP : k \in 0..IntMin(MaxSliderSteps, vw.max_area \div (SLIDER_STEP * RATIO_DEN))}

\* Faulty variant: use_memo(..., dependencies=[]) never recomputes.
MemoNeverRecomputes(old, new) == FALSE

\* use_memo(..., dependencies=[min_area_value]) recomputes when they changed.
MemoRecomputes(old, new) == old # new

\* Whether use_effect runs again: not for the same object, certainly for another
\* table with other contents; for another table with equal contents it is the
\* framework's comparison of the dependencies that decides.
EffectReruns(oldData, oldGlobal, newData, newGlobal, recomputed) ==
    IF ~recomputed \/ (oldGlobal /\ newGlobal) THEN {FALSE}
    ELSE IF oldData = newData THEN {TRUE, FALSE}
    ELSE {TRUE}

-----------------------------------------------------------------------------
(* Actions *)

InitWith(files) ==
    /\ phase = "start"
    /\ file \in files
    /\ all_solar_data = EmptyGeoDataFrame
    /\ map_bounds = None
    /\ load_raised = FALSE
    /\ min_area_value = DEFAULT_MIN_AREA
    /\ memo_deps = <<>>
    /\ current_filtered_data = EmptyGeoDataFrame
    /\ filtered_is_global = FALSE
    /\ view = NoView
    /\ layers = <<>>
    /\ naming \in Namings
    /\ overlays_at_add = 0
    /\ update_raised = FALSE
    /\ download = <<>>

\* Module import: initial_gdf, initial_bbox = get_initial_data() and the reactives.
ImportModule ==
    /\ phase = "start"
    /\ LET got == get_initial_data(file) IN
        /\ all_solar_data' = got.data
        /\ map_bounds' = got.bbox
        /\ load_raised' = got.raised
        /\ phase' = IF got.raised THEN "crashed" ELSE "loaded"
    /\ UNCHANGED <<file, min_area_value, memo_deps, current_filtered_data,
                   filtered_is_global, view, layers, naming, overlays_at_add,
                   update_raised, download>>

\* A render of Page with threshold v, and the effect of GeoAI_MapView after it.
RenderPage(v, first) ==
    LET recomputed == first \/ MemoRecomputes(memo_deps, <<v>>)
        filtered   == IF recomputed THEN calculate_filtered_data(all_solar_data, v)
                      ELSE current_filtered_data
        isGlobal   == IF recomputed THEN ReturnsGlobal(all_solar_data)
                      ELSE filtered_is_global
        global     == IF recomputed THEN GlobalAfterFilter(all_solar_data, v)
                      ELSE all_solar_data
        vw         == RenderView(global, filtered)
    IN
    /\ min_area_value' = v
    /\ memo_deps' = IF recomputed THEN <<v>> ELSE memo_deps
    /\ current_filtered_data' = filtered
    /\ filtered_is_global' = isGlobal
    /\ all_solar_data' = global
    /\ IF vw.raised
       THEN /\ phase' = "crashed"
            /\ UNCHANGED <<view, layers, overlays_at_add, update_raised>>
       ELSE /\ view' = vw
            /\ \E rerun \in (IF first THEN {TRUE}
                             ELSE EffectReruns(current_filtered_data, filtered_is_global,
                                               filtered, isGlobal, recomputed)) :
                 IF rerun
                 THEN \E o \in UpdateOutcomes(filtered) :
                        LET upd == update_geojson_layer(layers, filtered, o, naming, overlays_at_add) IN
                        /\ OverlayCount(upd.layers) <= MaxOverlays
                        /\ layers' = upd.layers
                        /\ overlays_at_add' = upd.overlays_at_add
                        /\ update_raised' = upd.raised
                        /\ phase' = IF upd.raised THEN "crashed" ELSE "rendered"
                 ELSE /\ phase' = "rendered"
                      /\ UNCHANGED <<layers, overlays_at_add, update_raised>>
    /\ UNCHANGED <<file, map_bounds, load_raised, naming, download>>

\* The first render of Page: use_state(10.0), the map is created empty.
FirstRender ==
    /\ phase = "loaded"
    /\ RenderPage(DEFAULT_MIN_AREA, TRUE)

\* The user moves the slider: set_min_area(v) and the re-render it causes.
Slide(v) ==
    /\ phase = "rendered"
    /\ v \in SliderValues(view)
    /\ v # min_area_value
    /\ RenderPage(v, FALSE)

\* The user clicks the download button.
ClickDownload ==
    /\ phase = "rendered"
    /\ ~view.disabled
    /\ download' = <<to_json(view.click_data)>>
    /\ UNCHANGED <<phase, file, all_solar_data, map_bounds, load_raised, min_area_value,
                   memo_deps, current_filtered_data, filtered_is_global, view, layers,
                   naming, overlays_at_add, update_raised>>

SlideAny == \E v \in SliderValues(view) : Slide(v)

Init == InitWith(Files(MaxPageRows))

Next == ImportModule \/ FirstRender \/ SlideAny \/ ClickDownload

\* The page: import, first render, slider moves, downloads.
Spec == Init /\ [][Next]_vars

\* A direct call calculate_filtered_data(t) on the loaded table.
CallFilter(t) ==
    /\ phase = "loaded"
    /\ min_area_value' = t
    /\ current_filtered_data' = calculate_filtered_data(all_solar_data, t)
    /\ filtered_is_global' = ReturnsGlobal(all_solar_data)
    /\ all_solar_data' = GlobalAfterFilter(all_solar_data, t)
    /\ memo_deps' = <<t>>
    /\ UNCHANGED <<phase, file, map_bounds, load_raised, view, layers, naming,
                   overlays_at_add, update_raised, download>>

CallFilterAny == \E t \in 0..MaxThreshold : CallFilter(t)

FilterInit == InitWith(Files(MaxRows))

FilterNext == ImportModule \/ CallFilterAny

\* The loader and the filter alone, on larger tables and every threshold.
FilterSpec == FilterInit /\ [][FilterNext]_vars

-----------------------------------------------------------------------------
(* Properties *)

Thresholds == 0..MaxThreshold

Called == phase = "loaded" /\ memo_deps # <<>>

HasArea(tab) == "area_m2" \in tab.columns

SameFeature(r, o) == r["geometry"] = o["geometry"] /\ r["area_m2"] = o["area_m2"]

\* res holds exactly the features of tab whose area is at least t, in tab's order
\* (the geometry of a loaded feature is its position in the file).
KeptExactly(tab, res, t) ==
    /\ \A i \in 1..Len(tab.rows) :
          (tab.rows[i]["area_m2"] >= t)
             <=> (\E j \in 1..Len(res.rows) : SameFeature(res.rows[j], tab.rows[i]))
    /\ \A j \in 1..Len(res.rows) :
          \E i \in 1..Len(tab.rows) : SameFeature(res.rows[j], tab.rows[i])
    /\ \A j, k \in 1..Len(res.rows) :
          j < k => res.rows[j]["geometry"] < res.rows[k]["geometry"]

FilterIsExact(tab) ==
    Called => KeptExactly(tab, current_filtered_data, min_area_value)

\* C1 as claimed: for every loaded table that has the area attribute and every
\* threshold t, calculate_filtered_data(t) returns exactly the records whose area
\* is >= t, in table order; an empty table gives an empty view.
C1_AsClaimed ==
    (phase = "loaded" /\ HasArea(all_solar_data)) => FilterIsExact(all_solar_data)

\* C1 amended: the same for every loaded table whose area attribute is numeric.
C1_ExactFilterOnNumericArea ==
    (phase = "loaded" /\ HasArea(all_solar_data) /\ all_solar_data.area_dtype = "float")
        => FilterIsExact(all_solar_data)

\* A call at a threshold equal to one record's area that keeps some records and
\* drops others.
C1_Witness ==
    /\ Called
    /\ all_solar_data.area_dtype = "float"
    /\ min_area_value \in AreasOf(all_solar_data)
    /\ Len(current_filtered_data.rows) >= 2
    /\ Len(current_filtered_data.rows) < Len(all_solar_data.rows)

\* C3: when the input file is missing or reading it raises, get_initial_data
\* returns an empty table that has the area column and an absent bounding box,
\* and it never raises to its caller.
C3_LoaderFailsSoft ==
    /\ ~load_raised
    /\ (phase # "start" /\ (~file.exists \/ ~file.readable))
          => /\ Len(all_solar_data.rows) = 0
             /\ HasArea(all_solar_data)
             /\ map_bounds = None

\* The module was imported with a file that exists and cannot be read.
C3_Witness == phase = "loaded" /\ file.exists /\ ~file.readable

ReturnsOriginal(tab) ==
    Called => (current_filtered_data = tab /\ filtered_is_global)

\* C4 as claimed: when the loaded table lacks the area attribute, the filter
\* returns the original table unchanged for every threshold.
C4_AsClaimed ==
    (phase = "loaded" /\ ~HasArea(all_solar_data)) => ReturnsOriginal(all_solar_data)

\* C4 amended: when the loaded table has records and lacks the area attribute, the
\* filter returns the original table unchanged for every threshold; a table
\* without records gives a new table without records.
C4_PassthroughWhenAreaMissing ==
    (phase = "loaded" /\ ~HasArea(all_solar_data))
        => IF Len(all_solar_data.rows) > 0
           THEN ReturnsOriginal(all_solar_data)
           ELSE Called => Len(current_filtered_data.rows) = 0

\* A call on a table with records and no area column, above every area of the model.
C4_Witness ==
    /\ Called
    /\ ~HasArea(all_solar_data)
    /\ Len(all_solar_data.rows) >= 2
    /\ min_area_value = MaxThreshold

\* C7: raising the threshold never increases the number of records in the
\* filtered view.
C7_Monotone ==
    Called =>
        \A t \in Thresholds :
            /\ t >= min_area_value
                 => Len(calculate_filtered_data(all_solar_data, t).rows)
                       <= Len(current_filtered_data.rows)
            /\ t <= min_area_value
                 => Len(calculate_filtered_data(all_solar_data, t).rows)
                       >= Len(current_filtered_data.rows)

\* A call whose view is smaller than the view at threshold 0 and larger than the
\* view at the largest threshold.
C7_Witness ==
    /\ Called
    /\ Len(current_filtered_data.rows) < Len(calculate_filtered_data(all_solar_data, 0).rows)
    /\ Len(current_filtered_data.rows)
          > Len(calculate_filtered_data(all_solar_data, MaxThreshold).rows)

\* C8: filtering the filtered view again at the same threshold returns the same
\* records.
C8_Idempotent ==
    Called =>
        calculate_filtered_data(current_filtered_data, min_area_value).rows
            = current_filtered_data.rows

\* A call that dropped some records and kept others, filtered again.
C8_Witness ==
    /\ Called
    /\ all_solar_data.area_dtype = "float"
    /\ Len(current_filtered_data.rows) >= 1
    /\ Len(current_filtered_data.rows) < Len(all_solar_data.rows)
    /\ min_area_value > 2

\* C2 as claimed: on each update the previous overlay layer is off the map before
\* the new one is added, and the map never holds more than one overlay layer.
C2_AsClaimed == overlays_at_add = 0 /\ OverlayCount(layers) <= 1

\* C5 as claimed: no failure of an external call made during a map layer update
\* propagates out of the update.
C5_AsClaimed == ~update_raised

ViewIsCurrent ==
    phase = "rendered" =>
        /\ (Len(calculate_filtered_data(all_solar_data, min_area_value).rows) = 0)
              => view.disabled
        /\ ~view.disabled
              => view.click_data = calculate_filtered_data(all_solar_data, min_area_value)

\* C6: in every rendered state the download control is disabled when the filtered
\* view of the current threshold is empty, and a click on the enabled control
\* serializes the filtered view of the current threshold.
C6_DownloadIsCurrentView ==
    /\ []ViewIsCurrent
    /\ [][download' # download
            => download' = <<to_json(calculate_filtered_data(all_solar_data,
                                                             min_area_value))>>]_vars

\* A download made after the slider left the default, of a view that differs from
\* the view of the default threshold.
C6_Witness ==
    /\ phase = "rendered"
    /\ min_area_value # DEFAULT_MIN_AREA
    /\ download = <<to_json(current_filtered_data)>>
    /\ current_filtered_data # calculate_filtered_data(all_solar_data, DEFAULT_MIN_AREA)

\* C9: after load, no operation changes the process-wide table or the bounding box.
C9_TableAndBoundsFrozen ==
    [][phase # "start" => (all_solar_data' = all_solar_data /\ map_bounds' = map_bounds)]_vars

\* A nonempty numeric table after a filter recomputation with styling, a map
\* layer update and a download.
C9_Witness ==
    /\ phase = "rendered"
    /\ all_solar_data.area_dtype = "float"
    /\ min_area_value # DEFAULT_MIN_AREA
    /\ "fill" \in current_filtered_data.columns
    /\ OverlayCount(layers) >= 1
    /\ download # <<>>

\* C10 as claimed: in every rendered state the threshold lies within the slider's
\* range [0, max].
C10_AsClaimed ==
    phase = "rendered"
        => (0 <= min_area_value /\ min_area_value * RATIO_DEN <= view.max_area)

====
